---- MODULE Spec2Model ----
(***************************************************************************)
(* The Press Your Luck board of src/main.py as a state machine.            *)
(*                                                                         *)
(*   Spec          the program: __main__, the constructor, draw_board,     *)
(*                 update_board / highlight_cursor ticks, the Tk timer and *)
(*                 the window being closed.                                *)
(*   TileSpec      make_tile applied to source images of bounded sizes.    *)
(*   GradientSpec  the pixel loop of make_rect_gradient for bounded sizes. *)
(***************************************************************************)
EXTENDS Integers, Sequences, FiniteSets, TLC

(* ------------------------------------------------------------------ *)
(* Program constants (src/main.py lines 7-23 and literals).            *)
(* ------------------------------------------------------------------ *)
ROWS == 5
COLS == 4
TILE_SIZE == 200
BORDER == 2
PADDING == 20
ORIGIN == 100
ALPHA_MAX == 255

BACKGROUND_COLORS == {"orange", "gold", "blue", "purple"}

(* ------------------------------------------------------------------ *)
(* Bounds of the model.                                                *)
(* ------------------------------------------------------------------ *)
MaxTicks == 3
MaxDim == 6
MaxGradSize == 6

(* ------------------------------------------------------------------ *)
(* File names are sequences of characters.                             *)
(* ------------------------------------------------------------------ *)
LowerChar(ch) ==
  CASE ch = "A" -> "a" [] ch = "B" -> "b" [] ch = "C" -> "c"
    [] ch = "E" -> "e" [] ch = "P" -> "p" [] ch = "W" -> "w"
    [] OTHER -> ch

Lower(s) == [i \in 1..Len(s) |-> LowerChar(s[i])]

EndsWith(s, suffix) ==
  /\ Len(s) >= Len(suffix)
  /\ SubSeq(s, Len(s) - Len(suffix) + 1, Len(s)) = suffix

EXT == <<".", "w", "e", "b", "p">>

MatchesCaseSensitive(f) == EndsWith(f, EXT)

Matches(f) == EndsWith(Lower(f), EXT)

(* The files a directory may hold: name, and the decoded image's size. *)
Files ==
  << [name |-> <<"a", ".", "w", "e", "b", "p">>, w |-> 100, h |-> 50],
     [name |-> <<"B", ".", "W", "E", "B", "P">>, w |-> 400, h |-> 1],
     [name |-> <<"c", ".", "p", "n", "g">>,      w |-> 64,  h |-> 64],
     [name |-> <<"w", "e", "b", "p">>,           w |-> 10,  h |-> 10],
     [name |-> <<"e", ".", "W", "e", "b", "P">>, w |-> 30,  h |-> 300] >>

Listing(S) ==
  LET idx == SelectSeq([i \in 1..Len(Files) |-> i], LAMBDA i : i \in S)
  IN  [k \in 1..Len(idx) |-> Files[idx[k]]]

(* ------------------------------------------------------------------ *)
(* Board geometry.                                                     *)
(* ------------------------------------------------------------------ *)
CellX(c) == c * (TILE_SIZE + 2 * BORDER) + ORIGIN
CellY(r) == r * (TILE_SIZE + 2 * BORDER) + ORIGIN

IsHole(c, r) == 1 <= c /\ c <= 2 /\ 1 <= r /\ r <= 3

RingPositionsDup ==
  [i \in 1..4 |-> <<i - 1, 0>>] \o [i \in 1..4 |-> <<3, i>>]
    \o [i \in 1..4 |-> <<4 - i, 4>>] \o [i \in 1..3 |-> <<0, 4 - i>>]

RingPositions ==
  [i \in 1..4 |-> <<i - 1, 0>>] \o [i \in 1..4 |-> <<3, i>>]
    \o [i \in 1..3 |-> <<3 - i, 4>>] \o [i \in 1..3 |-> <<0, 4 - i>>]

(* ------------------------------------------------------------------ *)
(* make_tile (lines 93-111).                                           *)
(* ------------------------------------------------------------------ *)

(* Python's round() of the float n/d: the nearest integer; at an exact *)
(* half the float product lies on either side of it, so the caller     *)
(* supplies the side.                                                  *)
Round(n, d, up) ==
  LET q == n \div d
      r2 == 2 * (n % d)
  IN  IF r2 > d THEN q + 1
      ELSE IF r2 < d THEN q
      ELSE IF up THEN q + 1 ELSE q

(* ImageOps.contain(img, (sw, sh)) as called on line 100: the size the *)
(* image is resized to.                                                *)
Contain(w, h, sw, sh, up) ==
  IF w * sh = h * sw THEN <<sw, sh>>
  ELSE IF w * sh > h * sw
       THEN LET new_height == Round(h * sw, w, up)
            IN  IF new_height # sh THEN <<sw, new_height>> ELSE <<sw, sh>>
       ELSE LET new_width == Round(w * sh, h, up)
            IN  IF new_width # sw THEN <<new_width, sh>> ELSE <<sw, sh>>

(* Image.resize rejects a size with a dimension below 1. *)
ResizeOk(size) == size[1] >= 1 /\ size[2] >= 1

(* The tile make_tile builds from a colour and a source image: the     *)
(* scaled image's size, its paste offsets and the bordered tile's edge.*)
MakeTile(color, img, up) ==
  LET size == Contain(img.w, img.h, TILE_SIZE - PADDING, TILE_SIZE - PADDING, up)
  IN  [ ok    |-> ResizeOk(size),
        color |-> color,
        w     |-> size[1],
        h     |-> size[2],
        x     |-> (TILE_SIZE - size[1]) \div 2,
        y     |-> (TILE_SIZE - size[2]) \div 2,
        edge  |-> TILE_SIZE + 2 * BORDER ]

NoTile == [ok |-> FALSE, color |-> "", w |-> 0, h |-> 0, x |-> 0, y |-> 0, edge |-> 0]

(* ------------------------------------------------------------------ *)
(* The insertion-ordered dict tile_widgets: a sequence of entries.     *)
(* ------------------------------------------------------------------ *)
Entry(pos, tile_id, tile_img) == [pos |-> pos, tile_id |-> tile_id, tile_img |-> tile_img]

DictAppend(d, e) == Append(d, e)

DictSet(d, e) ==
  IF \E i \in 1..Len(d) : d[i].pos = e.pos
  THEN [i \in 1..Len(d) |-> IF d[i].pos = e.pos THEN e ELSE d[i]]
  ELSE Append(d, e)

Keys(d) == {d[i].pos : i \in 1..Len(d)}

(* ------------------------------------------------------------------ *)
(* The canvas: a set of items; ids are handed out in sequence.         *)
(* ------------------------------------------------------------------ *)
ImageItem(id, x, y, img) == [id |-> id, kind |-> "image", x |-> x, y |-> y, img |-> img, tag |-> ""]

RectItem(id, x, y) == [id |-> id, kind |-> "rectangle", x |-> x, y |-> y, img |-> 0, tag |-> "cursor"]

CanvasKeep(its, tag) == its

CanvasDelete(its, tag) == {i \in its : i.tag # tag}

ItemConfig(its, id, img) ==
  {IF i.id = id THEN [i EXCEPT !.img = img] ELSE i : i \in its}

(* ------------------------------------------------------------------ *)
(* State.                                                              *)
(* ------------------------------------------------------------------ *)
VARIABLES
  pc,            \* position in the program
  ctx,           \* who called update_board: "ctor" (line 91) or "timer"
  dir,           \* os.listdir(image_dir) with each file's decoded size
  rootExists,    \* tk.Tk() has run
  shown,         \* the event loop has mapped the window
  canvasExists,  \* self.canvas
  items,         \* the canvas items
  nextId,        \* the id the canvas gives its next item
  images,        \* self.images
  raw_images,    \* self.raw_images
  gradients,     \* self.gradients (the names)
  positions,     \* self.positions, the cursor ring
  tile_widgets,  \* self.tile_widgets
  cursor_index,  \* self.cursor_index
  cell,          \* draw_board's loop position, r * 4 + c
  it,            \* update_board's loop position in tile_widgets
  timers,        \* pending root.after callbacks
  tick,          \* update_board calls begun
  serial,        \* PhotoImage objects created
  lastTile,      \* what the latest make_tile call built
  rnd,           \* the latest random.randrange value
  log,           \* the draw calls of the current update_board call
  error,         \* the exception raised, if any
  gsize, gx, gy, galpha, gpc,   \* make_rect_gradient's loop
  src, tile, tpc                \* make_tile on one source image

boardVars ==
  <<pc, ctx, dir, rootExists, shown, canvasExists, items, nextId, images, raw_images,
    gradients, positions, tile_widgets, cursor_index, cell, it, timers, tick, serial,
    lastTile, rnd, log, error>>

gradVars == <<gsize, gx, gy, galpha, gpc>>

tileVars == <<src, tile, tpc>>

vars == <<boardVars, gradVars, tileVars>>

BoardInit ==
  /\ pc = "main"
  /\ ctx = "ctor"
  /\ rootExists = FALSE
  /\ shown = FALSE
  /\ canvasExists = FALSE
  /\ items = {}
  /\ nextId = 1
  /\ images = <<>>
  /\ raw_images = <<>>
  /\ gradients = {}
  /\ positions = <<>>
  /\ tile_widgets = <<>>
  /\ cursor_index = 0
  /\ cell = 0
  /\ it = 1
  /\ timers = 0
  /\ tick = 0
  /\ serial = 0
  /\ lastTile = NoTile
  /\ rnd = 0
  /\ log = <<>>
  /\ error = ""

GradIdle == gsize = 0 /\ gx = 0 /\ gy = 0 /\ galpha = 0 /\ gpc = "off"

TileIdle == src = [w |-> 1, h |-> 1] /\ tile = NoTile /\ tpc = "off"

Init ==
  /\ BoardInit
  /\ \E S \in SUBSET (1..Len(Files)) : dir = Listing(S)
  /\ GradIdle
  /\ TileIdle

(* ------------------------------------------------------------------ *)
(* __main__ and the constructor (lines 49-91, 158-164).                *)
(* ------------------------------------------------------------------ *)

(* line 159: root = tk.Tk() *)
NewRoot ==
  /\ pc = "main"
  /\ rootExists' = TRUE
  /\ pc' = "load"
  /\ UNCHANGED <<ctx, dir, shown, canvasExists, items, nextId, images, raw_images,
                 gradients, positions, tile_widgets, cursor_index, cell, it, timers,
                 tick, serial, lastTile, rnd, log, error, gradVars, tileVars>>

(* lines 54-58: the files whose lower-cased name ends in ".webp" *)
Matching(listing) == SelectSeq(listing, LAMBDA f : Matches(f.name))

(* lines 54-60, the list is empty: raise ValueError, uncaught *)
LoadImagesFail ==
  /\ pc = "load"
  /\ Matching(dir) = <<>>
  /\ images' = Matching(dir)
  /\ error' = "NoImages"
  /\ pc' = "crashed"
  /\ UNCHANGED <<ctx, dir, rootExists, shown, canvasExists, items, nextId, raw_images,
                 gradients, positions, tile_widgets, cursor_index, cell, it, timers,
                 tick, serial, lastTile, rnd, log, gradVars, tileVars>>

(* lines 54-60, the list is not empty *)
LoadImagesOk ==
  /\ pc = "load"
  /\ Matching(dir) # <<>>
  /\ images' = Matching(dir)
  /\ pc' = "canvas"
  /\ UNCHANGED <<ctx, dir, rootExists, shown, canvasExists, items, nextId, raw_images,
                 gradients, positions, tile_widgets, cursor_index, cell, it, timers,
                 tick, serial, lastTile, rnd, log, error, gradVars, tileVars>>

(* lines 63-64 *)
CreateCanvas ==
  /\ pc = "canvas"
  /\ canvasExists' = TRUE
  /\ pc' = "preload"
  /\ UNCHANGED <<ctx, dir, rootExists, shown, items, nextId, images, raw_images,
                 gradients, positions, tile_widgets, cursor_index, cell, it, timers,
                 tick, serial, lastTile, rnd, log, error, gradVars, tileVars>>

(* lines 67-90: decode the images, build the gradients and the ring,   *)
(* empty the position map, call draw_board                             *)
Preload ==
  /\ pc = "preload"
  /\ raw_images' = [i \in 1..Len(images) |-> [w |-> images[i].w, h |-> images[i].h]]
  /\ gradients' = BACKGROUND_COLORS
  /\ positions' = RingPositions
  /\ tile_widgets' = <<>>
  /\ cursor_index' = 0
  /\ cell' = 0
  /\ pc' = "draw"
  /\ UNCHANGED <<ctx, dir, rootExists, shown, canvasExists, items, nextId, images, it,
                 timers, tick, serial, lastTile, rnd, log, error, gradVars, tileVars>>

(* ------------------------------------------------------------------ *)
(* draw_board (lines 113-126): one loop iteration per step.            *)
(* ------------------------------------------------------------------ *)
CellC == cell % 4
CellR == cell \div 4

(* lines 121-122: continue *)
DrawSkip ==
  /\ pc = "draw"
  /\ cell < 5 * 4
  /\ IsHole(CellC, CellR)
  /\ cell' = cell + 1
  /\ UNCHANGED <<pc, ctx, dir, rootExists, shown, canvasExists, items, nextId, images,
                 raw_images, gradients, positions, tile_widgets, cursor_index, it,
                 timers, tick, serial, lastTile, rnd, log, error, gradVars, tileVars>>

(* lines 124-126 *)
DrawTile ==
  /\ pc = "draw"
  /\ cell < 5 * 4
  /\ ~IsHole(CellC, CellR)
  /\ \E color \in BACKGROUND_COLORS, i \in 1..Len(raw_images), up \in BOOLEAN :
       LET t == MakeTile(color, raw_images[i], up)
       IN  /\ t.ok
           /\ lastTile' = t
  /\ serial' = serial + 1
  /\ items' = items \cup {ImageItem(nextId, CellX(CellC), CellY(CellR), serial + 1)}
  /\ nextId' = nextId + 1
  /\ tile_widgets' = DictSet(tile_widgets, Entry(<<CellC, CellR>>, nextId, serial + 1))
  /\ cell' = cell + 1
  /\ UNCHANGED <<pc, ctx, dir, rootExists, shown, canvasExists, images, raw_images,
                 gradients, positions, cursor_index, it, timers, tick, rnd, log, error,
                 gradVars, tileVars>>

(* line 124, make_tile raises inside the constructor: uncaught *)
DrawTileRaise ==
  /\ pc = "draw"
  /\ cell < 5 * 4
  /\ ~IsHole(CellC, CellR)
  /\ \E color \in BACKGROUND_COLORS, i \in 1..Len(raw_images), up \in BOOLEAN :
       LET t == MakeTile(color, raw_images[i], up)
       IN  /\ ~t.ok
           /\ lastTile' = t
  /\ error' = "Resize"
  /\ pc' = "crashed"
  /\ UNCHANGED <<ctx, dir, rootExists, shown, canvasExists, items, nextId, images,
                 raw_images, gradients, positions, tile_widgets, cursor_index, cell, it,
                 timers, tick, serial, rnd, log, gradVars, tileVars>>

(* line 91: draw_board has returned, the constructor calls update_board *)
DrawDone ==
  /\ pc = "draw"
  /\ cell = 5 * 4
  /\ pc' = "refresh"
  /\ ctx' = "ctor"
  /\ it' = 1
  /\ tick' = tick + 1
  /\ log' = <<>>
  /\ UNCHANGED <<dir, rootExists, shown, canvasExists, items, nextId, images, raw_images,
                 gradients, positions, tile_widgets, cursor_index, cell, timers, serial,
                 lastTile, rnd, error, gradVars, tileVars>>

(* ------------------------------------------------------------------ *)
(* update_board (lines 128-139) and highlight_cursor (lines 141-155).  *)
(* ------------------------------------------------------------------ *)
Event(ev, pos) == [ev |-> ev, pos |-> pos]

(* The order of update_board's three parts. *)
UpdateBoardScheduleFirst(p) ==
  CASE p = "refresh"  -> "schedule"
    [] p = "schedule" -> "hl_delete"
    [] p = "hl_incr"  -> "return"

UpdateBoardNext(p) ==
  CASE p = "refresh"  -> "hl_delete"
    [] p = "hl_incr"  -> "schedule"
    [] p = "schedule" -> "return"

RefreshedEntryNewId(e, img) == Entry(e.pos, e.tile_id + 1, img)

(* line 133: the entry written back *)
RefreshedEntry(e, img) == Entry(e.pos, e.tile_id, img)

(* lines 130-133, one iteration *)
RefreshTile ==
  /\ pc = "refresh"
  /\ it <= Len(tile_widgets)
  /\ \E color \in BACKGROUND_COLORS, i \in 1..Len(raw_images), up \in BOOLEAN :
       LET t == MakeTile(color, raw_images[i], up)
       IN  /\ t.ok
           /\ lastTile' = t
  /\ LET e == tile_widgets[it]
     IN  /\ items' = ItemConfig(items, e.tile_id, serial + 1)
         /\ tile_widgets' = DictSet(tile_widgets, RefreshedEntry(e, serial + 1))
         /\ log' = Append(log, Event("refresh", e.pos))
  /\ serial' = serial + 1
  /\ it' = it + 1
  /\ UNCHANGED <<pc, ctx, dir, rootExists, shown, canvasExists, nextId, images,
                 raw_images, gradients, positions, cursor_index, cell, timers, tick, rnd,
                 error, gradVars, tileVars>>

(* line 131, make_tile raises: uncaught in the constructor; in a timer *)
(* callback Tk reports it and the event loop goes on                  *)
RefreshTileRaise ==
  /\ pc = "refresh"
  /\ it <= Len(tile_widgets)
  /\ \E color \in BACKGROUND_COLORS, i \in 1..Len(raw_images), up \in BOOLEAN :
       LET t == MakeTile(color, raw_images[i], up)
       IN  /\ ~t.ok
           /\ lastTile' = t
  /\ error' = "Resize"
  /\ pc' = IF ctx = "ctor" THEN "crashed" ELSE "idle"
  /\ UNCHANGED <<ctx, dir, rootExists, shown, canvasExists, items, nextId, images,
                 raw_images, gradients, positions, tile_widgets, cursor_index, cell, it,
                 timers, tick, serial, rnd, log, gradVars, tileVars>>

(* line 130: the iteration is over *)
LoopExit ==
  /\ pc = "refresh"
  /\ it > Len(tile_widgets)
  /\ pc' = UpdateBoardNext("refresh")
  /\ UNCHANGED <<ctx, dir, rootExists, shown, canvasExists, items, nextId, images,
                 raw_images, gradients, positions, tile_widgets, cursor_index, cell, it,
                 timers, tick, serial, lastTile, rnd, log, error, gradVars, tileVars>>

(* line 143 *)
HlDelete ==
  /\ pc = "hl_delete"
  /\ items' = CanvasDelete(items, "cursor")
  /\ log' = Append(log, Event("hl_delete", <<>>))
  /\ pc' = "hl_pick"
  /\ UNCHANGED <<ctx, dir, rootExists, shown, canvasExists, nextId, images, raw_images,
                 gradients, positions, tile_widgets, cursor_index, cell, it, timers,
                 tick, serial, lastTile, rnd, error, gradVars, tileVars>>

PickIndexStored(stored, k) == stored

(* line 144: the index the assignment stores *)
PickIndex(stored, k) == k

(* line 144 *)
HlPick ==
  /\ pc = "hl_pick"
  /\ \E k \in 0..(Len(positions) - 1) :
       /\ rnd' = k
       /\ cursor_index' = PickIndex(cursor_index, k)
  /\ pc' = "hl_create"
  /\ UNCHANGED <<ctx, dir, rootExists, shown, canvasExists, items, nextId, images,
                 raw_images, gradients, positions, tile_widgets, cell, it, timers, tick,
                 serial, lastTile, log, error, gradVars, tileVars>>

(* lines 146-153 *)
HlCreate ==
  /\ pc = "hl_create"
  /\ LET pos == positions[cursor_index + 1]
     IN  items' = items \cup {RectItem(nextId, CellX(pos[1]), CellY(pos[2]))}
  /\ nextId' = nextId + 1
  /\ log' = Append(log, Event("hl_create", <<>>))
  /\ pc' = "hl_incr"
  /\ UNCHANGED <<ctx, dir, rootExists, shown, canvasExists, images, raw_images,
                 gradients, positions, tile_widgets, cursor_index, cell, it, timers,
                 tick, serial, lastTile, rnd, error, gradVars, tileVars>>

(* line 155 *)
HlIncr ==
  /\ pc = "hl_incr"
  /\ cursor_index' = (cursor_index + 1) % Len(positions)
  /\ pc' = UpdateBoardNext("hl_incr")
  /\ UNCHANGED <<ctx, dir, rootExists, shown, canvasExists, items, nextId, images,
                 raw_images, gradients, positions, tile_widgets, cell, it, timers, tick,
                 serial, lastTile, rnd, log, error, gradVars, tileVars>>

(* line 139 *)
Schedule ==
  /\ pc = "schedule"
  /\ timers' = timers + 1
  /\ log' = Append(log, Event("schedule", <<>>))
  /\ pc' = UpdateBoardNext("schedule")
  /\ UNCHANGED <<ctx, dir, rootExists, shown, canvasExists, items, nextId, images,
                 raw_images, gradients, positions, tile_widgets, cursor_index, cell, it,
                 tick, serial, lastTile, rnd, error, gradVars, tileVars>>

(* lines 162-164: the constructor returns and root.mainloop() starts *)
CtorReturn ==
  /\ pc = "return"
  /\ ctx = "ctor"
  /\ shown' = TRUE
  /\ pc' = "idle"
  /\ UNCHANGED <<ctx, dir, rootExists, canvasExists, items, nextId, images, raw_images,
                 gradients, positions, tile_widgets, cursor_index, cell, it, timers,
                 tick, serial, lastTile, rnd, log, error, gradVars, tileVars>>

(* the timer callback returns to the event loop *)
CallbackReturn ==
  /\ pc = "return"
  /\ ctx = "timer"
  /\ pc' = "idle"
  /\ UNCHANGED <<ctx, dir, rootExists, shown, canvasExists, items, nextId, images,
                 raw_images, gradients, positions, tile_widgets, cursor_index, cell, it,
                 timers, tick, serial, lastTile, rnd, log, error, gradVars, tileVars>>

(* line 139's timer expires: the event loop calls update_board *)
TimerFires ==
  /\ pc = "idle"
  /\ timers > 0
  /\ tick < MaxTicks
  /\ timers' = timers - 1
  /\ ctx' = "timer"
  /\ it' = 1
  /\ tick' = tick + 1
  /\ log' = <<>>
  /\ pc' = "refresh"
  /\ UNCHANGED <<dir, rootExists, shown, canvasExists, items, nextId, images, raw_images,
                 gradients, positions, tile_widgets, cursor_index, cell, serial,
                 lastTile, rnd, error, gradVars, tileVars>>

(* line 164: the window is closed and root.mainloop() returns *)
CloseWindow ==
  /\ pc = "idle"
  /\ pc' = "exited"
  /\ shown' = FALSE
  /\ rootExists' = FALSE
  /\ canvasExists' = FALSE
  /\ items' = {}
  /\ timers' = 0
  /\ UNCHANGED <<ctx, dir, nextId, images, raw_images, gradients, positions,
                 tile_widgets, cursor_index, cell, it, tick, serial, lastTile, rnd, log,
                 error, gradVars, tileVars>>

Next ==
  \/ NewRoot
  \/ LoadImagesFail
  \/ LoadImagesOk
  \/ CreateCanvas
  \/ Preload
  \/ DrawSkip
  \/ DrawTile
  \/ DrawTileRaise
  \/ DrawDone
  \/ RefreshTile
  \/ RefreshTileRaise
  \/ LoopExit
  \/ HlDelete
  \/ HlPick
  \/ HlCreate
  \/ HlIncr
  \/ Schedule
  \/ CtorReturn
  \/ CallbackReturn
  \/ TimerFires
  \/ CloseWindow

Spec == Init /\ [][Next]_vars

(* ------------------------------------------------------------------ *)
(* make_tile on one source image of any size in Dims.                  *)
(* ------------------------------------------------------------------ *)
Dims == (1..MaxDim) \cup {90, 179, 180, 181, 200, 359, 360, 361, 400}

BoardOff ==
  /\ BoardInit
  /\ dir = <<>>

TileInit ==
  /\ BoardOff
  /\ GradIdle
  /\ src \in [w : Dims, h : Dims]
  /\ tile = NoTile
  /\ tpc = "pick"

(* lines 95-111: make_tile returns a tile *)
TMakeTile ==
  /\ tpc = "pick"
  /\ \E color \in BACKGROUND_COLORS, up \in BOOLEAN :
       LET t == MakeTile(color, src, up)
       IN  /\ t.ok
           /\ tile' = t
  /\ tpc' = "returned"
  /\ UNCHANGED <<src, boardVars, gradVars>>

(* line 100: the resize raises, make_tile returns nothing *)
TMakeTileRaise ==
  /\ tpc = "pick"
  /\ \E color \in BACKGROUND_COLORS, up \in BOOLEAN :
       LET t == MakeTile(color, src, up)
       IN  /\ ~t.ok
           /\ tile' = t
  /\ tpc' = "raised"
  /\ UNCHANGED <<src, boardVars, gradVars>>

TileNext ==
  \/ TMakeTile
  \/ TMakeTileRaise

TileSpec == TileInit /\ [][TileNext]_vars

(* ------------------------------------------------------------------ *)
(* make_rect_gradient (lines 26-45): the mask's pixel loop.            *)
(* ------------------------------------------------------------------ *)
GradSizes == (1..MaxGradSize) \cup {TILE_SIZE}

Abs(n) == IF n < 0 THEN -n ELSE n

Max2(a, b) == IF a >= b THEN a ELSE b

(* lines 38-41: dx = |x - size/2|, dy = |y - size/2|, dist = max,      *)
(* alpha = int(255 * (dist / (size/2))); in integers, with both        *)
(* distances doubled.                                                  *)
Alpha(size, x, y) ==
  (ALPHA_MAX * Max2(Abs(2 * x - size), Abs(2 * y - size))) \div size

GradInit ==
  /\ BoardOff
  /\ TileIdle
  /\ gsize \in GradSizes
  /\ gx = 0
  /\ gy = 0
  /\ galpha = 0
  /\ gpc = "start"

(* lines 35-42: the first pixel, (0, 0) *)
GradFirstPixel ==
  /\ gpc = "start"
  /\ gx' = 0
  /\ gy' = 0
  /\ galpha' = Alpha(gsize, 0, 0)
  /\ gpc' = "pixel"
  /\ UNCHANGED <<gsize, boardVars, tileVars>>

(* lines 36-42: the next pixel of the row *)
GradNextPixel ==
  /\ gpc = "pixel"
  /\ gx + 1 < gsize
  /\ gx' = gx + 1
  /\ galpha' = Alpha(gsize, gx + 1, gy)
  /\ UNCHANGED <<gsize, gy, gpc, boardVars, tileVars>>

(* lines 35-42: the first pixel of the next row *)
GradNextRow ==
  /\ gpc = "pixel"
  /\ gx + 1 = gsize
  /\ gy + 1 < gsize
  /\ gx' = 0
  /\ gy' = gy + 1
  /\ galpha' = Alpha(gsize, 0, gy + 1)
  /\ UNCHANGED <<gsize, gpc, boardVars, tileVars>>

(* lines 44-45: both loops are over *)
GradPaste ==
  /\ gpc = "pixel"
  /\ gx + 1 = gsize
  /\ gy + 1 = gsize
  /\ gpc' = "done"
  /\ UNCHANGED <<gsize, gx, gy, galpha, boardVars, tileVars>>

GradNext ==
  \/ GradFirstPixel
  \/ GradNextPixel
  \/ GradNextRow
  \/ GradPaste

GradientSpec == GradInit /\ [][GradNext]_vars

(* ------------------------------------------------------------------ *)
(* C8  For every pixel the blend weight is min(1, d / (size/2)) scaled *)
(* to 0..255 (d the Chebyshev distance from the centre), lies in       *)
(* 0..255, is 0 at the exact centre pixel and is 255 at every pixel of *)
(* the outer edge (x or y equal to 0 or size - 1).                     *)
(* ------------------------------------------------------------------ *)
OnOuterEdge(size, x, y) == x = 0 \/ y = 0 \/ x = size - 1 \/ y = size - 1

C8_EdgeIsMaximal ==
  gpc = "pixel" =>
    /\ galpha \in 0..ALPHA_MAX
    /\ LET d2 == Max2(Abs(2 * gx - gsize), Abs(2 * gy - gsize))
           m  == IF d2 > gsize THEN gsize ELSE d2
       IN  galpha * gsize <= ALPHA_MAX * m /\ ALPHA_MAX * m < (galpha + 1) * gsize
    /\ (gx = gsize \div 2 /\ gy = gsize \div 2) => galpha = 0
    /\ OnOuterEdge(gsize, gx, gy) => galpha = ALPHA_MAX

(* ------------------------------------------------------------------ *)
(* C9  For every source image of positive width and height the scaled  *)
(* image has both dimensions in 1..TILE_SIZE - 20, one of them equal   *)
(* to TILE_SIZE - 20, the paste offsets leave opposing margins that    *)
(* differ by at most 1 and keep the image inside the tile, and the     *)
(* returned tile is TILE_SIZE + 2 * BORDER square.                     *)
(* ------------------------------------------------------------------ *)
Fit == TILE_SIZE - PADDING

C9_TileAlwaysBuilt ==
  tpc # "pick" =>
    /\ tpc = "returned"
    /\ tile.w \in 1..Fit
    /\ tile.h \in 1..Fit
    /\ tile.w = Fit \/ tile.h = Fit
    /\ Abs((TILE_SIZE - tile.w - tile.x) - tile.x) <= 1
    /\ Abs((TILE_SIZE - tile.h - tile.y) - tile.y) <= 1
    /\ tile.x >= 0 /\ tile.x + tile.w <= TILE_SIZE
    /\ tile.y >= 0 /\ tile.y + tile.h <= TILE_SIZE
    /\ tile.edge = TILE_SIZE + 2 * BORDER

(* ------------------------------------------------------------------ *)
(* What the claims about the board speak of.                           *)
(* ------------------------------------------------------------------ *)
NonHoleCells ==
  {<<c, r>> : c \in 0..(COLS - 1), r \in 0..(ROWS - 1)}
    \ {<<c, r>> : c \in 1..2, r \in 1..3}

DrawFinished == cell = ROWS * COLS

Highlights == {i \in items : i.tag = "cursor"}

TileItems == {i \in items : i.kind = "image"}

RefreshCount(p) == Cardinality({i \in 1..Len(log) : log[i].ev = "refresh" /\ log[i].pos = p})

AfterRefreshLoop == pc \in {"hl_delete", "hl_pick", "hl_create", "hl_incr", "schedule", "return"}

At(item, pos) == item.x = CellX(pos[1]) /\ item.y = CellY(pos[2])

SupportedExt(name) ==
  /\ Len(name) >= 5
  /\ name[Len(name) - 4] = "."
  /\ name[Len(name) - 3] \in {"w", "W"}
  /\ name[Len(name) - 2] \in {"e", "E"}
  /\ name[Len(name) - 1] \in {"b", "B"}
  /\ name[Len(name)] \in {"p", "P"}

MatchingFiles == Cardinality({i \in 1..Len(dir) : SupportedExt(dir[i].name)})

RingBuilt == pc \in {"draw", "refresh", "hl_delete", "hl_pick", "hl_create", "hl_incr",
                     "schedule", "return", "idle", "exited"}

RingShape ==
  /\ Len(positions) = 2 * ROWS + 2 * COLS - 4
  /\ \A i, j \in 1..Len(positions) : positions[i] = positions[j] => i = j
  /\ \A i \in 1..Len(positions) :
       LET c == positions[i][1]
           r == positions[i][2]
       IN  /\ c \in 0..(COLS - 1) /\ r \in 0..(ROWS - 1)
           /\ c = 0 \/ c = COLS - 1 \/ r = 0 \/ r = ROWS - 1
           /\ ~(c \in 1..2 /\ r \in 1..3)

C2_RingFixed ==
  /\ [](RingBuilt => RingShape)
  /\ [][positions # <<>> => positions' = positions]_vars

C2_Witness ==
  /\ pc = "idle"
  /\ tick = 2
  /\ error = ""
  /\ RingShape

(* ------------------------------------------------------------------ *)
(* C3  With no file of the supported extension (any letter case) the   *)
(* start fails with the no-images error: the window is never shown, no *)
(* canvas, tile or highlight exists and no tick is scheduled.  With a  *)
(* matching file the error is not raised and as many images are loaded *)
(* as files match.                                                     *)
(* ------------------------------------------------------------------ *)
C3_NoImagesFailsFast ==
  /\ MatchingFiles = 0 =>
       /\ pc \in {"main", "load", "crashed"}
       /\ pc = "crashed" => error = "NoImages"
       /\ ~shown /\ ~canvasExists /\ items = {} /\ tile_widgets = <<>>
       /\ timers = 0 /\ tick = 0
  /\ MatchingFiles > 0 =>
       /\ error # "NoImages"
       /\ pc \notin {"main", "load"} => Len(images) = MatchingFiles
       /\ pc \notin {"main", "load", "canvas", "preload"} => Len(raw_images) = MatchingFiles

C3_Witness ==
  /\ pc = "crashed"
  /\ error = "NoImages"
  /\ Len(dir) = 2
  /\ rootExists /\ ~shown /\ ~canvasExists

(* ------------------------------------------------------------------ *)
(* C4  There is never more than one highlight rectangle, and after a   *)
(* completed tick there is exactly one, on a position of the ring that *)
(* holds a tile.                                                       *)
(* ------------------------------------------------------------------ *)
C4_OneHighlight ==
  /\ Cardinality(Highlights) <= 1
  /\ pc \in {"return", "idle"} =>
       /\ Cardinality(Highlights) = 1
       /\ \A h \in Highlights :
            \E i \in 1..Len(positions) :
              /\ At(h, positions[i])
              /\ positions[i] \in Keys(tile_widgets)

C4_Witness ==
  /\ pc = "idle"
  /\ tick = 2
  /\ error = ""
  /\ Cardinality(Highlights) = 1

(* ------------------------------------------------------------------ *)
(* C5  In every update_board call, the first included, all occupied    *)
(* positions are refreshed before the highlight is removed or drawn,   *)
(* and the next call is scheduled only after the highlight is drawn.   *)
(* ------------------------------------------------------------------ *)
C5_TickOrder ==
  /\ \A i \in 1..Len(log) :
       /\ log[i].ev = "refresh" => \A j \in 1..(i - 1) : log[j].ev = "refresh"
       /\ log[i].ev \in {"hl_delete", "hl_create"} =>
            {log[j].pos : j \in {k \in 1..(i - 1) : log[k].ev = "refresh"}} = Keys(tile_widgets)
       /\ log[i].ev = "hl_create" => \E j \in 1..(i - 1) : log[j].ev = "hl_delete"
       /\ log[i].ev = "schedule" => \E j \in 1..(i - 1) : log[j].ev = "hl_create"
  /\ pc = "return" =>
       /\ Len(log) = Len(tile_widgets) + 3
       /\ log[Len(log)].ev = "schedule"

C5_Witness ==
  /\ pc = "return"
  /\ ctx = "ctor"
  /\ Len(log) = ROWS * COLS - 6 + 3

(* ------------------------------------------------------------------ *)
(* C6  At most one tick is pending or executing, and while the window  *)
(* is open the ticks never stop: whenever the event loop is waiting, a *)
(* successor tick is pending.                                          *)
(* ------------------------------------------------------------------ *)
Executing == pc \in {"refresh", "hl_delete", "hl_pick", "hl_create", "hl_incr", "schedule"}

AtMostOneTick == timers + (IF Executing THEN 1 ELSE 0) <= 1

C6_TicksNeverStop ==
  /\ AtMostOneTick
  /\ (pc = "idle" /\ shown) => timers = 1

(* ------------------------------------------------------------------ *)
(* C7  After any number of ticks every occupied position still maps to *)
(* the canvas item draw_board created at that position, the item shows *)
(* the bitmap stored with it, and the canvas holds no other tile item. *)
(* ------------------------------------------------------------------ *)
C7_HandlesPreserved ==
  (DrawFinished /\ canvasExists) =>
    /\ \A i \in 1..Len(tile_widgets) :
         LET e == tile_widgets[i]
         IN  \E item \in TileItems :
               /\ item.id = e.tile_id
               /\ At(item, e.pos)
               /\ item.img = e.tile_img
    /\ Cardinality(TileItems) = ROWS * COLS - 6
    /\ Cardinality({item.id : item \in TileItems}) = ROWS * COLS - 6

C7_Witness ==
  /\ pc = "idle"
  /\ tick = 2
  /\ error = ""
  /\ \A i \in 1..Len(tile_widgets) : tile_widgets[i].tile_img > 2 * (ROWS * COLS - 6)

(* ------------------------------------------------------------------ *)
(* C10  The highlighted position is the ring position of the tick's    *)
(* random draw, whatever index was stored before; the stored index     *)
(* stays within the ring and after a tick is the highlighted index     *)
(* plus one modulo the ring length.                                    *)
(* ------------------------------------------------------------------ *)
C10_CursorIndexDead ==
  positions # <<>> =>
    /\ cursor_index \in 0..(Len(positions) - 1)
    /\ pc = "hl_create" => cursor_index = rnd
    /\ pc \in {"hl_incr", "schedule", "return", "idle"} =>
         \A h \in Highlights : At(h, positions[rnd + 1])
    /\ pc \in {"schedule", "return", "idle", "exited"} =>
         cursor_index = (rnd + 1) % Len(positions)

C10_Witness ==
  /\ pc = "idle"
  /\ tick = 2
  /\ error = ""
  /\ rnd = Len(positions) - 1
  /\ cursor_index = 0
  /\ \E h \in Highlights : At(h, positions[Len(positions)])

====
